---- MODULE Spec2Model ----
(***************************************************************************)
(* Operator-template type inference (grudge/symbolic/mappers/              *)
(* type_inference.py) and the boundary-to-flux rewriter                    *)
(* (grudge/symbolic/mappers/bc_to_flux.py).                                *)
(***************************************************************************)
EXTENDS Integers, Sequences, FiniteSets, TLC

VARIABLES
    ua, ub, uc,         \* operands handed to unify
    ures,               \* what the unify calls returned
    upc,                \* "args" before the calls, "done" after
    expr,               \* TypeInferrer.__call__: the roots of the template
    type_hints,         \* TypeInferrer.__call__: the hints of this call
    container,          \* TypeDict.container of this call
    change_flag,        \* TypeDict.change_flag of this call
    cse_last_results,   \* TypeInferrer.cse_last_results, kept by the inferrer object
    pc,                 \* position of the call in TypeInferrer.__call__
    err,                \* the exception the call raised, "" when none
    ncalls,             \* calls started on inferrer objects so far
    used,               \* whether this inferrer object served an earlier call
    rerun,              \* whether type_hints is the dictionary the previous call returned
    passes,             \* rounds of the while loop this call has made, up to MaxPasses
    flux,               \* BCToFluxRewriter.map_operator_binding: expr.op.flux
    vol_field,          \* bpair.field, as the list of its components
    bdry_field,         \* bpair.bfield
    bpair_tag,          \* bpair.tag
    mbfeef,             \* the finder object: its lists and index dictionaries
    new_bdry_field,     \* what the finder returned for bdry_field
    result,             \* what map_operator_binding returned
    rpc,                \* position in map_operator_binding
    rerr,               \* the exception map_operator_binding raised, "" when none
    written             \* the last TypeDict.__setitem__ call, with the dictionary before it

uvars == <<ua, ub, uc, ures, upc>>
ivars == <<expr, type_hints, container, change_flag, cse_last_results, pc, err,
           ncalls, used, rerun, passes>>
rvars == <<flux, vol_field, bdry_field, bpair_tag, mbfeef, new_bdry_field, result,
           rpc, rerr>>
dvars == <<written>>
vars == <<ua, ub, uc, ures, upc, expr, type_hints, container, change_flag,
          cse_last_results, pc, err, ncalls, used, rerun, passes,
          flux, vol_field, bdry_field, bpair_tag, mbfeef, new_bdry_field, result,
          rpc, rerr, written>>

-----------------------------------------------------------------------------
(* Bounds *)

\* boundary tags are 1..MaxBoundaryTag
MaxBoundaryTag == 2
\* quadrature tags are 1..MaxQuadTag
MaxQuadTag == 2

BoundaryTags == 1..MaxBoundaryTag
QuadTags == 1..MaxQuadTag

-----------------------------------------------------------------------------
(* Representation tags *)

\* NodalRepresentation(): all instances are equal
NodalRepresentation == 0
\* QuadratureRepresentation(quadrature_tag): equal iff the tags are equal
QuadratureRepresentation(quadrature_tag) == quadrature_tag
IsQuadratureRepresentation(repr_tag) == repr_tag \in QuadTags
\* attribute not present on the object
NoAttr == -1

ReprTags == {NodalRepresentation} \cup {QuadratureRepresentation(q) : q \in QuadTags}

-----------------------------------------------------------------------------
(* type_info: the type values.  ty is the class, boundary_tag and repr_tag *)
(* the attributes (NoAttr when the class has none).                        *)

Type(ty, boundary_tag, repr_tag) ==
    [ty |-> ty, boundary_tag |-> boundary_tag, repr_tag |-> repr_tag]

no_type == Type("NoType", NoAttr, NoAttr)
Scalar == Type("Scalar", NoAttr, NoAttr)
KnownVolume == Type("KnownVolume", NoAttr, NoAttr)
KnownInteriorFaces == Type("KnownInteriorFaces", NoAttr, NoAttr)
KnownBoundary(boundary_tag) == Type("KnownBoundary", boundary_tag, NoAttr)
KnownRepresentation(repr_tag) == Type("KnownRepresentation", NoAttr, repr_tag)
VolumeVector(repr_tag) == Type("VolumeVector", NoAttr, repr_tag)
BoundaryVector(boundary_tag, repr_tag) == Type("BoundaryVector", boundary_tag, repr_tag)

\* exceptions, as values that take the place of a result
TypeError == Type("TypeError", NoAttr, NoAttr)
RuntimeError == Type("RuntimeError", NoAttr, NoAttr)
NotImplemented == Type("NotImplemented", NoAttr, NoAttr)

IsRaised(tp) == tp.ty \in {"TypeError", "RuntimeError"}

\* InteriorFacesVector.__init__ raises TypeError for a non-quadrature tag
InteriorFacesVector(repr_tag) ==
    IF IsQuadratureRepresentation(repr_tag)
    THEN Type("InteriorFacesVector", NoAttr, repr_tag)
    ELSE TypeError

\* isinstance(tp, type_info.FinalType)
IsFinalType(tp) ==
    tp.ty \in {"Scalar", "VolumeVector", "InteriorFacesVector", "BoundaryVector"}

TypeValues ==
    {no_type, Scalar, KnownVolume, KnownInteriorFaces}
    \cup {KnownBoundary(t) : t \in BoundaryTags}
    \cup {KnownRepresentation(r) : r \in ReprTags}
    \cup {VolumeVector(r) : r \in ReprTags}
    \cup {InteriorFacesVector(QuadratureRepresentation(q)) : q \in QuadTags}
    \cup {BoundaryVector(t, r) : t \in BoundaryTags, r \in ReprTags}

-----------------------------------------------------------------------------
(* unify_inner of each class *)

NoType_unify_inner(self, other) == other

\* KnownVolume.unify_inner answering for KnownRepresentation as well, with
\* the nodal representation
KnownVolume_unify_inner_repr(self, other) ==
    IF other.ty = "VolumeVector" THEN other
    ELSE IF other.ty = "KnownRepresentation" THEN VolumeVector(NodalRepresentation)
    ELSE NotImplemented

KnownVolume_unify_inner(self, other) ==
    IF other.ty = "VolumeVector" THEN other ELSE NotImplemented

KnownInteriorFaces_unify_inner(self, other) ==
    IF other.ty = "InteriorFacesVector" THEN other
    ELSE IF other.ty = "KnownVolume" THEN VolumeVector(NodalRepresentation)
    ELSE IF other = VolumeVector(NodalRepresentation) THEN other
    ELSE NotImplemented

KnownBoundary_unify_inner(self, other) ==
    IF other.ty = "BoundaryVector" /\ self.boundary_tag = other.boundary_tag
    THEN other
    ELSE NotImplemented

\* KnownRepresentation.unify_inner without the comparison of the
\* representations of a VolumeVector
KnownRepresentation_unify_inner_any(self, other) ==
    IF other.ty = "VolumeVector" THEN VolumeVector(self.repr_tag)
    ELSE IF other.ty = "BoundaryVector" /\ self.repr_tag = other.repr_tag THEN other
    ELSE IF other.ty = "KnownVolume" THEN VolumeVector(self.repr_tag)
    ELSE IF other.ty = "KnownInteriorFaces" THEN
        IF self.repr_tag = NodalRepresentation
        THEN VolumeVector(self.repr_tag)
        ELSE InteriorFacesVector(self.repr_tag)
    ELSE IF other.ty = "KnownBoundary"
        THEN BoundaryVector(other.boundary_tag, self.repr_tag)
    ELSE NotImplemented

KnownRepresentation_unify_inner(self, other) ==
    IF other.ty = "VolumeVector" /\ self.repr_tag = other.repr_tag THEN other
    ELSE IF other.ty = "BoundaryVector" /\ self.repr_tag = other.repr_tag THEN other
    ELSE IF other.ty = "KnownVolume" THEN VolumeVector(self.repr_tag)
    ELSE IF other.ty = "KnownInteriorFaces" THEN
        IF self.repr_tag = NodalRepresentation
        THEN VolumeVector(self.repr_tag)
        ELSE InteriorFacesVector(self.repr_tag)
    ELSE IF other.ty = "KnownBoundary"
        THEN BoundaryVector(other.boundary_tag, self.repr_tag)
    ELSE NotImplemented

\* dispatch on the class of self; the final types inherit TypeInfo.unify_inner
unify_inner(self, other) ==
    CASE self.ty = "NoType" -> NoType_unify_inner(self, other)
      [] self.ty = "KnownVolume" -> KnownVolume_unify_inner(self, other)
      [] self.ty = "KnownInteriorFaces" -> KnownInteriorFaces_unify_inner(self, other)
      [] self.ty = "KnownBoundary" -> KnownBoundary_unify_inner(self, other)
      [] self.ty = "KnownRepresentation" -> KnownRepresentation_unify_inner(self, other)
      [] OTHER -> NotImplemented

\* TypeInfo.unify, after both unify_inner calls
unify_results(u_s_o, u_o_s) ==
    IF u_s_o = NotImplemented
    THEN IF u_o_s = NotImplemented THEN TypeError ELSE u_o_s
    ELSE IF u_o_s = NotImplemented THEN u_s_o
    ELSE IF u_s_o # u_o_s THEN RuntimeError
    ELSE u_s_o

\* TypeInfo.unify
unify(self, other) ==
    IF self = other THEN self
    ELSE unify_results(unify_inner(self, other), unify_inner(other, self))

\* a.unify(b) where evaluating a or b may already have raised
unify_raising(a, b) ==
    IF IsRaised(a) THEN a ELSE IF IsRaised(b) THEN b ELSE unify(a, b)

-----------------------------------------------------------------------------
(* Aspect extraction *)

\* the class namespace type_info itself, which has no repr_tag attribute
type_info == Type("type_info", NoAttr, NoAttr)

extract_representation(ti) ==
    IF ti.repr_tag = NoAttr THEN no_type ELSE KnownRepresentation(ti.repr_tag)

extract_domain(ti) ==
    IF ti.ty \in {"KnownVolume", "VolumeVector"} THEN KnownVolume
    ELSE IF ti.ty \in {"KnownBoundary", "BoundaryVector"} THEN KnownBoundary(ti.boundary_tag)
    ELSE no_type

-----------------------------------------------------------------------------
(* Expression nodes.  kind is the node class (its mapper method), op the   *)
(* operator class of an operator binding, tag a boundary tag (0: none),    *)
(* quadrature_tag a quadrature tag (0: None), name a variable name,        *)
(* field the operand list (children of an n-ary node, child of a common    *)
(* subexpression, field of an operator binding or of a boundary pair) and  *)
(* bfield the boundary side of a boundary pair.  Two nodes are the same    *)
(* dictionary key iff they are structurally equal.                         *)

Node(kind, op, tag, quadrature_tag, name, field, bfield) ==
    [kind |-> kind, op |-> op, tag |-> tag, quadrature_tag |-> quadrature_tag,
     name |-> name, field |-> field, bfield |-> bfield]

Variable(name) == Node("variable", "", 0, 0, name, <<>>, <<>>)
\* the constants 1 and 0
Constant == Node("constant", "", 0, 0, 1, <<>>, <<>>)
Zero == Node("constant", "", 0, 0, 0, <<>>, <<>>)
Jacobian == Node("jacobian", "", 0, 0, 0, <<>>, <<>>)
NodeCoordinateComponent(quadrature_tag) ==
    Node("node_coordinate_component", "", 0, quadrature_tag, 0, <<>>, <<>>)
BoundaryNormalComponent(boundary_tag, quadrature_tag) ==
    Node("normal_component", "", boundary_tag, quadrature_tag, 0, <<>>, <<>>)
Sum(children) == Node("sum", "", 0, 0, 0, children, <<>>)
Product(children) == Node("product", "", 0, 0, 0, children, <<>>)
CommonSubexpression(child) == Node("common_subexpression", "", 0, 0, 0, <<child>>, <<>>)
\* op(field) for an operator op with the given tags
OperatorBinding(op, tag, quadrature_tag, field) ==
    Node("operator_binding", op, tag, quadrature_tag, 0, <<field>>, <<>>)
\* a flux operator bound to a field or an object array of fields
FluxBinding(fields) == Node("operator_binding", "FluxOperator", 0, 0, 0, fields, <<>>)
\* a flux operator bound to BoundaryPair(field, bfield, tag)
FluxPairBinding(fields, bfields, tag) ==
    Node("operator_binding", "FluxOperator", tag, 0, 0, fields, bfields)

\* isinstance(expr.field, BoundaryPair), for a flux operator binding
IsBoundaryPair(e) == e.tag # 0

-----------------------------------------------------------------------------
(* TypeDict.  A mapper carries  M = [td, flag, cse, err, tp] : the         *)
(* container and change_flag of the dictionary, the inferrer's             *)
(* cse_last_results, the exception raised so far ("" when none) and the    *)
(* value the last mapper method returned.                                  *)

CannotBeUnified == "TypeError: types cannot be unified"
DontAgree == "RuntimeError: types don't agree about their unifier"
UnableToDeduce == "RuntimeError: unable to deduce complete type information"
DoesntKnowHow == "RuntimeError: TypeInferrer doesn't know how to handle"
NotImplementedError == "NotImplementedError"
\* not an exception: a loop that never leaves
NeverReturns == "never returns"

ExceptionOf(tp) == IF tp.ty = "TypeError" THEN CannotBeUnified ELSE DontAgree

EmptyDict == [e \in {} |-> no_type]

Put(d, key, val) == [k \in DOMAIN d \cup {key} |-> IF k = key THEN val ELSE d[k]]

Raise(M, exception) == [M EXCEPT !.err = exception]

\* a mapper method returns tp
Return(M, tp) ==
    IF M.err # "" THEN M
    ELSE IF IsRaised(tp) THEN Raise(M, ExceptionOf(tp))
    ELSE [M EXCEPT !.tp = tp]

\* TypeDict.__init__: the container is a copy of the hints
TypeDict_init(hints) == hints

TypeDict_getitem(td, e) == IF e \in DOMAIN td THEN td[e] ELSE no_type

\* __setitem__ for a key that is present, setting change_flag whatever tp is
TypeDict_update_flag(M, e, old_tp, tp) ==
    IF IsRaised(tp) THEN Raise(M, ExceptionOf(tp))
    ELSE [M EXCEPT !.td = Put(M.td, e, tp), !.flag = TRUE]

\* TypeDict.__setitem__ for a key that is present: tp = old_tp.unify(new_tp)
TypeDict_update(M, e, old_tp, tp) ==
    IF IsRaised(tp) THEN Raise(M, ExceptionOf(tp))
    ELSE IF tp # old_tp THEN [M EXCEPT !.td = Put(M.td, e, tp), !.flag = TRUE]
    ELSE M

TypeDict_setitem(M, e, new_tp) ==
    IF M.err # "" THEN M
    ELSE IF IsRaised(new_tp) THEN Raise(M, ExceptionOf(new_tp))
    ELSE IF new_tp = no_type THEN M
    ELSE IF e \notin DOMAIN M.td
        THEN [M EXCEPT !.td = Put(M.td, e, new_tp), !.flag = TRUE]
    ELSE TypeDict_update(M, e, M.td[e], unify(M.td[e], new_tp))

-----------------------------------------------------------------------------
(* TypeInferrer: the mapper methods *)

RECURSIVE rec(_, _)
RECURSIVE infer_children_loop(_, _, _, _, _)
RECURSIVE set_children(_, _, _, _)
RECURSIVE process_flux_args(_, _, _, _, _)
RECURSIVE cse_propagate(_, _)

ChildrenLoop(tp, non_scalar_exprs, M) ==
    [tp |-> tp, non_scalar_exprs |-> non_scalar_exprs, M |-> M]

\* tp = tp.unify(other_tp, child), u being the unifier
infer_children_unified(children, i, tp, non_scalar_exprs, R, u) ==
    IF IsRaised(u)
    THEN ChildrenLoop(tp, non_scalar_exprs, Raise(R, ExceptionOf(u)))
    ELSE infer_children_loop(children, i + 1, u, Append(non_scalar_exprs, children[i]), R)

\* the body of the loop, R being what self.rec(child, typedict) left
infer_children_step(children, i, tp, non_scalar_exprs, R) ==
    IF R.err # "" THEN ChildrenLoop(tp, non_scalar_exprs, R)
    ELSE IF tp = no_type
    THEN IF R.tp = Scalar
         THEN infer_children_loop(children, i + 1, no_type, non_scalar_exprs, R)
         ELSE infer_children_loop(children, i + 1, R.tp,
                                  Append(non_scalar_exprs, children[i]), R)
    ELSE IF R.tp # Scalar
         THEN infer_children_unified(children, i, tp, non_scalar_exprs, R,
                                     unify(tp, R.tp))
         ELSE infer_children_loop(children, i + 1, tp, non_scalar_exprs, R)

\* the loop over the children in infer_for_children
infer_children_loop(children, i, tp, non_scalar_exprs, M) ==
    IF i > Len(children) \/ M.err # ""
    THEN ChildrenLoop(tp, non_scalar_exprs, M)
    ELSE infer_children_step(children, i, tp, non_scalar_exprs, rec(children[i], M))

\* for child in non_scalar_exprs: typedict[child] = tp
set_children(non_scalar_exprs, i, tp, M) ==
    IF i > Len(non_scalar_exprs) \/ M.err # "" THEN M
    ELSE set_children(non_scalar_exprs, i + 1, tp,
                      TypeDict_setitem(M, non_scalar_exprs[i], tp))

\* infer_for_children after the loop over the children
infer_children_return(L) ==
    Return(set_children(L.non_scalar_exprs, 1, L.tp, L.M),
           IF L.non_scalar_exprs = <<>> THEN Scalar ELSE L.tp)

infer_for_children(e, M, children) ==
    infer_children_return(
        infer_children_loop(children, 1, TypeDict_getitem(M.td, e), <<>>, M))

map_sum(e, M) == infer_for_children(e, M, e.field)

map_product(e, M) == infer_for_children(e, M, e.field)

map_constant(e, M) == Return(M, unify(Scalar, TypeDict_getitem(M.td, e)))

\* map_variable taking a variable for a nodal volume vector
map_variable_volume(e, M) ==
    Return(M, unify(VolumeVector(NodalRepresentation), TypeDict_getitem(M.td, e)))

map_variable(e, M) ==
    Return(M, unify(KnownRepresentation(NodalRepresentation), TypeDict_getitem(M.td, e)))

map_node_coordinate_component(e, M) ==
    Return(M, unify(IF e.quadrature_tag # 0
                    THEN VolumeVector(QuadratureRepresentation(e.quadrature_tag))
                    ELSE VolumeVector(NodalRepresentation),
                    TypeDict_getitem(M.td, e)))

map_normal_component(e, M) ==
    Return(M, unify(IF e.quadrature_tag # 0
                    THEN BoundaryVector(e.tag, QuadratureRepresentation(e.quadrature_tag))
                    ELSE KnownBoundary(e.tag),
                    TypeDict_getitem(M.td, e)))

map_jacobian(e, M) == Return(M, KnownVolume)

FluxArgs(repr_tag_cell, M) == [repr_tag_cell |-> repr_tag_cell, M |-> M]

\* repr_tag_cell[0] = extract_representation(self.rec(flux_arg, typedict))
process_flux_arg_done(args, i, base, repr_tag_cell, M2) ==
    IF M2.err # "" THEN FluxArgs(repr_tag_cell, M2)
    ELSE process_flux_args(args, i + 1, base, extract_representation(M2.tp), M2)

\* process_vol_flux_arg / process_bdry_flux_arg over one object array:
\* base is KnownInteriorFaces or KnownBoundary(bpair.tag)
process_flux_args(args, i, base, repr_tag_cell, M) ==
    IF i > Len(args) \/ M.err # "" THEN FluxArgs(repr_tag_cell, M)
    ELSE process_flux_arg_done(args, i, base, repr_tag_cell,
            rec(args[i], TypeDict_setitem(M, args[i], unify(base, repr_tag_cell))))

\* the boundary side of a flux binding, V being what the interior side left
process_bdry_flux_args(e, V) ==
    IF IsBoundaryPair(e)
    THEN process_flux_args(e.bfield, 1, KnownBoundary(e.tag), V.repr_tag_cell, V.M)
    ELSE V

\* the operator classes each isinstance test of map_operator_binding accepts
QuadratureSpecialized ==
    {"ReferenceQuadratureStiffnessTOperator", "ReferenceQuadratureMassOperator"}
StiffnessT == {"ReferenceStiffnessTOperator", "StiffnessTOperator"}
Mass == {"ReferenceMassOperator", "MassOperator"}
OtherDiffMass ==
    {"DiffOperator", "ReferenceDiffOperator", "InverseMassOperator",
     "ReferenceInverseMassOperator"}

\* self.rec(expr.field, typedict) without the constraint on the operand
rec_unconstrained(e, M, tp) == rec(e.field[1], M)

\* typedict[expr.field] = tp; self.rec(expr.field, typedict)
constrain_and_rec(e, M, tp) == rec(e.field[1], TypeDict_setitem(M, e.field[1], tp))

\* the argument type a branch of map_operator_binding stores before it recurses
operand_constraint(e, M) ==
    CASE e.op = "NodalReductionOperator" -> KnownVolume
      [] e.op \in QuadratureSpecialized ->
            VolumeVector(QuadratureRepresentation(e.quadrature_tag))
      [] e.op \in StiffnessT -> KnownVolume
      [] e.op \in Mass -> KnownVolume
      [] e.op \in OtherDiffMass -> VolumeVector(NodalRepresentation)
      [] e.op = "ElementwiseMaxOperator" ->
            unify(TypeDict_getitem(M.td, e), KnownVolume)
      [] e.op = "BoundarizeOperator" ->
            unify(KnownVolume, extract_representation(type_info))
      [] e.op = "QuadratureGridUpsampler" ->
            extract_domain(TypeDict_getitem(M.td, e))
      [] e.op = "QuadratureInteriorFacesGridUpsampler" ->
            VolumeVector(NodalRepresentation)
      [] e.op = "QuadratureBoundaryGridUpsampler" ->
            BoundaryVector(e.tag, NodalRepresentation)
      [] e.op = "ElementwiseLinearOperator" -> VolumeVector(NodalRepresentation)

\* what a branch of map_operator_binding returns, M2 being what
\* self.rec(expr.field, typedict) left
operator_result(e, M2) ==
    CASE e.op = "NodalReductionOperator" -> Scalar
      [] e.op \in QuadratureSpecialized -> VolumeVector(NodalRepresentation)
      [] e.op \in StiffnessT -> VolumeVector(NodalRepresentation)
      [] e.op \in Mass -> VolumeVector(NodalRepresentation)
      [] e.op \in OtherDiffMass -> VolumeVector(NodalRepresentation)
      [] e.op = "ElementwiseMaxOperator" -> M2.tp
      [] e.op = "BoundarizeOperator" ->
            unify(KnownBoundary(e.tag),
                  extract_representation(TypeDict_getitem(M2.td, e.field[1])))
      [] e.op = "QuadratureGridUpsampler" ->
            unify(KnownRepresentation(QuadratureRepresentation(e.quadrature_tag)),
                  extract_domain(TypeDict_getitem(M2.td, e.field[1])))
      [] e.op = "QuadratureInteriorFacesGridUpsampler" ->
            InteriorFacesVector(QuadratureRepresentation(e.quadrature_tag))
      [] e.op = "QuadratureBoundaryGridUpsampler" ->
            BoundaryVector(e.tag, QuadratureRepresentation(e.quadrature_tag))
      [] e.op = "ElementwiseLinearOperator" -> VolumeVector(NodalRepresentation)

operator_return(e, M2) ==
    IF M2.err # "" THEN M2 ELSE Return(M2, operator_result(e, M2))

flux_return(B) == Return(B.M, VolumeVector(NodalRepresentation))

OneOperandOperators ==
    {"NodalReductionOperator", "ElementwiseMaxOperator", "BoundarizeOperator",
     "QuadratureGridUpsampler", "QuadratureInteriorFacesGridUpsampler",
     "QuadratureBoundaryGridUpsampler", "ElementwiseLinearOperator"}
    \cup QuadratureSpecialized \cup StiffnessT \cup Mass \cup OtherDiffMass

map_operator_binding(e, M) ==
    IF e.op = "FluxExchangeOperator" THEN Raise(M, NotImplementedError)
    ELSE IF e.op = "FluxOperator"
    THEN flux_return(process_bdry_flux_args(e,
            process_flux_args(e.field, 1, KnownInteriorFaces, no_type, M)))
    ELSE IF e.op \in OneOperandOperators
    THEN operator_return(e, constrain_and_rec(e, M, operand_constraint(e, M)))
    ELSE Raise(M, DoesntKnowHow)

\* one round of the inner while loop, R being what the round left
cse_round(child, M, R) ==
    IF R.err # "" THEN R
    ELSE IF ~R.flag THEN R
    ELSE IF R.td = M.td /\ R.cse = M.cse THEN Raise(R, NeverReturns)
    ELSE cse_propagate(child, R)

\* the inner while loop of map_common_subexpression: rec(expr.child) until
\* a round leaves change_flag unset.  A round that ends with the flag set
\* and the dictionary and the cache as they were is repeated forever.
cse_propagate(child, M) ==
    IF M.err # "" THEN M
    ELSE cse_round(child, M, rec(child, [M EXCEPT !.flag = FALSE]))

\* we can be sure we *have* changed something
cse_return(M5, new_tp) ==
    IF M5.err # "" THEN M5 ELSE Return([M5 EXCEPT !.flag = TRUE], new_tp)

\* after the inner loop: the result is cached and stored for the child
cse_store(e, M3) ==
    IF M3.err # "" THEN M3
    ELSE cse_return(
            TypeDict_setitem([M3 EXCEPT !.cse = Put(M3.cse, e, M3.tp)],
                             e.field[1], M3.tp),
            M3.tp)

map_common_subexpression(e, M) ==
    IF TypeDict_getitem(M.td, e) # TypeDict_getitem(M.cse, e)
       \/ TypeDict_getitem(M.cse, e) = no_type
    THEN cse_store(e,
            cse_propagate(e.field[1],
                rec(e.field[1],
                    TypeDict_setitem(M, e.field[1], TypeDict_getitem(M.td, e)))))
    ELSE Return(M, TypeDict_getitem(M.cse, e))

\* RecursiveMapper.rec: dispatch on the node class
RecursiveMapper_rec(e, M) ==
    CASE e.kind = "sum" -> map_sum(e, M)
      [] e.kind = "product" -> map_product(e, M)
      [] e.kind = "constant" -> map_constant(e, M)
      [] e.kind = "variable" -> map_variable(e, M)
      [] e.kind = "node_coordinate_component" -> map_node_coordinate_component(e, M)
      [] e.kind = "normal_component" -> map_normal_component(e, M)
      [] e.kind = "jacobian" -> map_jacobian(e, M)
      [] e.kind = "operator_binding" -> map_operator_binding(e, M)
      [] e.kind = "common_subexpression" -> map_common_subexpression(e, M)

\* typedict[expr] = tp; return tp
rec_store(e, R) ==
    IF R.err # "" THEN R ELSE [TypeDict_setitem(R, e, R.tp) EXCEPT !.tp = R.tp]

\* TypeInferrer.rec
rec(e, M) == IF M.err # "" THEN M ELSE rec_store(e, RecursiveMapper_rec(e, M))

-----------------------------------------------------------------------------
(* TypeInferrer.__call__ *)

RECURSIVE infer_for_exprs(_, _, _)
RECURSIVE infer_until_converged(_, _, _)

MapperState(td, cse) ==
    [td |-> td, flag |-> FALSE, cse |-> cse, err |-> "", tp |-> no_type]

\* with_object_array_or_scalar(infer_for_expr, expr)
infer_for_exprs(roots, i, M) ==
    IF i > Len(roots) \/ M.err # "" THEN M
    ELSE infer_for_exprs(roots, i + 1, rec(roots[i], M))

\* one round of the while loop: change_flag = False, then the traversal
one_pass(roots, td, cse) == infer_for_exprs(roots, 1, MapperState(td, cse))

\* the check after the loop looking for missing types only
inference_complete_known(td) == \A e \in DOMAIN td : td[e] # no_type

\* the check after the loop: every entry is an instance of FinalType
inference_complete(td) == \A e \in DOMAIN td : IsFinalType(td[e])

Outcome(status, exception, td, cse) ==
    [status |-> status, err |-> exception, td |-> td, cse |-> cse]

\* after one round M of the loop that started from td and cse
after_pass(roots, td, cse, M) ==
    IF M.err = NeverReturns THEN Outcome("never returns", "", M.td, M.cse)
    ELSE IF M.err # "" THEN Outcome("raised", M.err, M.td, M.cse)
    ELSE IF ~M.flag
         THEN IF inference_complete(M.td)
              THEN Outcome("returned", "", M.td, M.cse)
              ELSE Outcome("raised", UnableToDeduce, M.td, M.cse)
    ELSE IF M.td = td /\ M.cse = cse THEN Outcome("never returns", "", M.td, M.cse)
    ELSE infer_until_converged(roots, M.td, M.cse)

\* the whole call as a function of its inputs and of the inferrer's cache
infer_until_converged(roots, td, cse) ==
    after_pass(roots, td, cse, one_pass(roots, td, cse))

TypeInferrer_call(roots, hints, cse) ==
    infer_until_converged(roots, TypeDict_init(hints), cse)

-----------------------------------------------------------------------------
(* The templates and hints the calls are made on *)

\* boundary tags of template nodes are 1..MaxTemplateBoundaryTag
MaxTemplateBoundaryTag == 1
\* quadrature tags of template nodes are 1..MaxTemplateQuadTag
MaxTemplateQuadTag == 1
\* calls made in one behaviour
MaxCalls == 3
\* rounds of the while loop counted in one call
MaxPasses == 3

TemplateBoundaryTags == 1..MaxTemplateBoundaryTag
TemplateQuadTags == 1..MaxTemplateQuadTag

x == Variable(1)

Leaves ==
    {x, Constant, Jacobian}
    \cup {NodeCoordinateComponent(q) : q \in {0} \cup TemplateQuadTags}
    \cup {BoundaryNormalComponent(t, q) :
            t \in TemplateBoundaryTags, q \in {0} \cup TemplateQuadTags}

\* nodes with one operand
Unary(operand) ==
    {CommonSubexpression(operand)}
    \cup {OperatorBinding(op, 0, 0, operand) :
            op \in {"NodalReductionOperator", "MassOperator", "DiffOperator",
                    "StiffnessTOperator",
                    "ElementwiseMaxOperator", "FluxExchangeOperator",
                    "ElementwiseLinearOperator", "JumpOperator"}}
    \cup {OperatorBinding("BoundarizeOperator", t, 0, operand) :
            t \in TemplateBoundaryTags}
    \cup {OperatorBinding(op, 0, q, operand) :
            op \in {"ReferenceQuadratureMassOperator", "QuadratureGridUpsampler",
                    "QuadratureInteriorFacesGridUpsampler"},
            q \in TemplateQuadTags}
    \cup {OperatorBinding("QuadratureBoundaryGridUpsampler", t, q, operand) :
            t \in TemplateBoundaryTags, q \in TemplateQuadTags}

Unary1 == UNION {Unary(l) : l \in Leaves}
Unary2 == UNION {Unary(u) : u \in Unary1}

\* pairs of operands, in both orders
Pairs ==
    {<<a, b>> : a \in Leaves \cup Unary1, b \in {x, Constant, Jacobian}}
    \cup {<<b, a>> : a \in Leaves \cup Unary1, b \in {x, Constant, Jacobian}}

\* a template is the sequence of its roots
Templates ==
    {<<u>> : u \in Leaves \cup Unary1 \cup Unary2}
    \cup {<<Sum(p)>> : p \in Pairs}
    \cup {<<Product(p)>> : p \in Pairs}
    \cup {<<FluxBinding(p)>> : p \in Pairs}
    \cup {<<FluxPairBinding(<<p[1]>>, <<p[2]>>, t)>> :
            p \in Pairs, t \in TemplateBoundaryTags}
    \cup {<<FluxBinding(<<x, m, OperatorBinding(op, 0, q, x)>>)>> :
            m \in {x, Jacobian, NodeCoordinateComponent(0)},
            op \in {"QuadratureInteriorFacesGridUpsampler"},
            q \in TemplateQuadTags}
    \cup Pairs

Hints ==
    {EmptyDict}
    \cup {[e \in {x} |-> tp] : tp \in {VolumeVector(NodalRepresentation), KnownVolume}}

\* hints about the result of a template that is a boundarize binding: a
\* boundary vector on a quadrature grid
ResultHints(roots) ==
    IF Len(roots) = 1 /\ roots[1].op = "BoundarizeOperator"
    THEN {[e \in {roots[1]} |->
                BoundaryVector(roots[1].tag, QuadratureRepresentation(q))] :
            q \in TemplateQuadTags}
    ELSE {}

-----------------------------------------------------------------------------
(* Specification of the inference calls made on inferrer objects *)

\* the variables of the other specifications stay as they are
IParked ==
    /\ expr = <<>> /\ type_hints = EmptyDict /\ container = EmptyDict
    /\ change_flag = FALSE /\ cse_last_results = EmptyDict
    /\ pc = "parked" /\ err = "" /\ ncalls = 0 /\ used = FALSE /\ rerun = FALSE
    /\ passes = 0

UParked ==
    /\ ua = no_type /\ ub = no_type /\ uc = no_type
    /\ ures = [ab |-> no_type, ba |-> no_type, ab_c |-> no_type, a_bc |-> no_type,
               ab_a |-> no_type, ab_b |-> no_type]
    /\ upc = "parked"

RParked ==
    /\ flux = <<>> /\ vol_field = <<>> /\ bdry_field = <<>> /\ bpair_tag = 0
    /\ mbfeef = <<>> /\ new_bdry_field = <<>> /\ result = <<>>
    /\ rpc = "parked" /\ rerr = ""

DParked == written = <<>>

IInit ==
    /\ UParked
    /\ RParked
    /\ DParked
    /\ expr \in Templates
    /\ type_hints \in Hints \cup ResultHints(expr)
    /\ container = TypeDict_init(type_hints)
    /\ change_flag = FALSE
    /\ cse_last_results = EmptyDict
    /\ pc = "loop"
    /\ err = ""
    /\ ncalls = 1
    /\ used = FALSE
    /\ rerun = FALSE
    /\ passes = 0

\* the state a round of the loop leaves
PassLeaves(M) ==
    /\ container' = M.td
    /\ change_flag' = M.flag
    /\ cse_last_results' = M.cse
    /\ pc' = IF M.err = "" THEN "test"
             ELSE IF M.err = NeverReturns THEN "stuck" ELSE "raised"
    /\ err' = M.err

\* one round of the while loop up to the test of change_flag
Pass ==
    /\ pc = "loop"
    /\ PassLeaves(one_pass(expr, container, cse_last_results))
    /\ passes' = IF passes < MaxPasses THEN passes + 1 ELSE passes
    /\ UNCHANGED <<expr, type_hints, ncalls, used, rerun>>
    /\ UNCHANGED uvars
    /\ UNCHANGED rvars
    /\ UNCHANGED dvars

\* change_flag is set: the loop goes round again
Repeat ==
    /\ pc = "test"
    /\ change_flag
    /\ pc' = "loop"
    /\ UNCHANGED <<expr, type_hints, container, change_flag, cse_last_results, err,
                   ncalls, used, rerun, passes>>
    /\ UNCHANGED uvars
    /\ UNCHANGED rvars
    /\ UNCHANGED dvars

\* change_flag is unset: break, check the entries, return the dictionary
Converged ==
    /\ pc = "test"
    /\ ~change_flag
    /\ IF inference_complete(container)
       THEN pc' = "returned" /\ err' = ""
       ELSE pc' = "raised" /\ err' = UnableToDeduce
    /\ UNCHANGED <<expr, type_hints, container, change_flag, cse_last_results,
                   ncalls, used, rerun, passes>>
    /\ UNCHANGED uvars
    /\ UNCHANGED rvars
    /\ UNCHANGED dvars

\* the same inferrer object is called again on the same template and hints
CallAgain ==
    /\ pc = "returned"
    /\ ncalls < MaxCalls
    /\ container' = TypeDict_init(type_hints)
    /\ change_flag' = FALSE
    /\ pc' = "loop"
    /\ ncalls' = ncalls + 1
    /\ used' = TRUE
    /\ rerun' = FALSE
    /\ passes' = 0
    /\ UNCHANGED <<expr, type_hints, cse_last_results, err>>
    /\ UNCHANGED uvars
    /\ UNCHANGED rvars
    /\ UNCHANGED dvars

\* the template is inferred again with the returned dictionary as hints,
\* by the same inferrer object or by a new one
CallWithResult ==
    /\ pc = "returned"
    /\ ncalls < MaxCalls
    /\ type_hints' = container
    /\ container' = TypeDict_init(container)
    /\ change_flag' = FALSE
    /\ pc' = "loop"
    /\ ncalls' = ncalls + 1
    /\ \/ used' = TRUE /\ cse_last_results' = cse_last_results
       \/ used' = FALSE /\ cse_last_results' = EmptyDict
    /\ rerun' = TRUE
    /\ passes' = 0
    /\ UNCHANGED <<expr, err>>
    /\ UNCHANGED uvars
    /\ UNCHANGED rvars
    /\ UNCHANGED dvars

INext ==
    \/ Pass
    \/ Repeat
    \/ Converged
    \/ CallAgain
    \/ CallWithResult

Spec == IInit /\ [][INext]_vars

-----------------------------------------------------------------------------
(* bc_to_flux.py: nodes of the flux language and of boundary expressions *)

\* sym_flux.FieldComponent(index, is_interior)
FieldComponent(index, is_interior) ==
    Node("field_component", IF is_interior THEN "interior" ELSE "boundary",
         0, 0, index, <<>>, <<>>)
\* sym_flux.Normal(axis); the templates use axis 0
Normal(axis) == Node("normal", "", 0, 0, axis, <<>>, <<>>)
\* a flux exchange leaf
FluxExchange == Node("flux_exchange", "", 0, 0, 0, <<>>, <<>>)

AliasedVariables == "RuntimeError: Variables are being used as both boundary and volume quantities"
FluxNormal == "RuntimeError: Your operator template contains a flux normal"
TagsDisagree == "RuntimeError: do not agree about boundary tag"
BoundaryOperator == "RuntimeError: Found operator in a boundary term"

-----------------------------------------------------------------------------
(* DependencyMapper(include_operator_bindings=True): the variables of an   *)
(* expression and the operator bindings in it, an operator binding being a *)
(* dependency as a whole                                                   *)

RECURSIVE DependencyMapper(_)
RECURSIVE DependencyMapper_children(_, _)

DependencyMapper_children(children, i) ==
    IF i > Len(children) THEN {}
    ELSE DependencyMapper(children[i]) \cup DependencyMapper_children(children, i + 1)

DependencyMapper(e) ==
    CASE e.kind = "variable" -> {e}
      [] e.kind = "operator_binding" -> {e}
      [] e.kind \in {"sum", "product", "common_subexpression"} ->
            DependencyMapper_children(e.field, 1)
      [] e.kind \in {"constant", "normal_component", "normal", "flux_exchange"} -> {}

-----------------------------------------------------------------------------
(* ExpensiveBoundaryOperatorDetector: val is what it returns, err the      *)
(* exception it raises                                                     *)

RECURSIVE ExpensiveBoundaryOperatorDetector(_)
RECURSIVE detector_children(_, _, _)

detector_return(val) == [val |-> val, err |-> ""]
detector_raise(exception) == [val |-> FALSE, err |-> exception]

\* combine(values): every value is computed before they are combined
detector_combine(children, i, acc, D) ==
    IF D.err # "" THEN D
    ELSE detector_children(children, i + 1, acc \/ D.val)

detector_children(children, i, acc) ==
    IF i > Len(children) THEN detector_return(acc)
    ELSE detector_combine(children, i, acc,
            ExpensiveBoundaryOperatorDetector(children[i]))

detector_map_operator_binding(e) ==
    IF e.op = "RestrictToBoundary" THEN detector_return(FALSE)
    ELSE IF e.op = "FluxExchangeOperator" THEN detector_return(TRUE)
    ELSE IF e.op \in {"QuadratureGridUpsampler", "QuadratureInteriorFacesGridUpsampler"}
    THEN detector_return(TRUE)
    ELSE detector_raise(BoundaryOperator)

ExpensiveBoundaryOperatorDetector(e) ==
    CASE e.kind = "operator_binding" -> detector_map_operator_binding(e)
      [] e.kind \in {"common_subexpression", "normal_component", "variable",
                     "constant"} -> detector_return(FALSE)
      [] e.kind \in {"sum", "product"} -> detector_children(e.field, 1, FALSE)

-----------------------------------------------------------------------------
(* MaxBoundaryFluxEvaluableExpressionFinder.  The finder object F holds    *)
(* vol_expr_list, vol_expr_to_idx, bdry_expr_list and bdry_expr_to_idx;    *)
(* idx is the index a registration returned, out the expression a rule     *)
(* returned, err the exception raised.  Indices count from 0.              *)

RECURSIVE enumerate_to_idx(_, _, _)
RECURSIVE mbfeef_rec(_, _, _)
RECURSIVE mbfeef_children(_, _, _, _, _, _)

\* dict((vol_expr, idx) for idx, vol_expr in enumerate(vol_expr_list))
enumerate_to_idx(list, i, d) ==
    IF i > Len(list) THEN d
    ELSE enumerate_to_idx(list, i + 1, Put(d, list[i], i - 1))

\* MaxBoundaryFluxEvaluableExpressionFinder.__init__
mbfeef_init(vol_expr_list) ==
    [vol_expr_list |-> vol_expr_list,
     vol_expr_to_idx |-> enumerate_to_idx(vol_expr_list, 1, <<>>),
     bdry_expr_list |-> <<>>,
     bdry_expr_to_idx |-> <<>>,
     idx |-> 0, out |-> <<>>, err |-> ""]

\* register_boundary_expr without the lookup: every expression is appended
register_boundary_expr_append(F, e) ==
    [F EXCEPT !.idx = Len(F.bdry_expr_list),
              !.bdry_expr_to_idx = Put(@, e, Len(F.bdry_expr_list)),
              !.bdry_expr_list = Append(@, e)]

register_boundary_expr(F, e) ==
    IF e \in DOMAIN F.bdry_expr_to_idx
    THEN [F EXCEPT !.idx = F.bdry_expr_to_idx[e]]
    ELSE [F EXCEPT !.idx = Cardinality(DOMAIN F.bdry_expr_to_idx),
                   !.bdry_expr_to_idx = Put(@, e, Cardinality(DOMAIN @)),
                   !.bdry_expr_list = Append(@, e)]

\* register_volume_expr without the lookup: every expression is appended
register_volume_expr_append(F, e) ==
    [F EXCEPT !.idx = Len(F.vol_expr_list),
              !.vol_expr_to_idx = Put(@, e, Len(F.vol_expr_list)),
              !.vol_expr_list = Append(@, e)]

\* register_volume_expr entering a new expression in front of the list
register_volume_expr_front(F, e) ==
    IF e \in DOMAIN F.vol_expr_to_idx
    THEN [F EXCEPT !.idx = F.vol_expr_to_idx[e]]
    ELSE [F EXCEPT !.idx = 0,
                   !.vol_expr_to_idx = Put(@, e, 0),
                   !.vol_expr_list = <<e>> \o @]

register_volume_expr(F, e) ==
    IF e \in DOMAIN F.vol_expr_to_idx
    THEN [F EXCEPT !.idx = F.vol_expr_to_idx[e]]
    ELSE [F EXCEPT !.idx = Cardinality(DOMAIN F.vol_expr_to_idx),
                   !.vol_expr_to_idx = Put(@, e, Cardinality(DOMAIN @)),
                   !.vol_expr_list = Append(@, e)]

mbfeef_raise(F, exception) == [F EXCEPT !.err = exception]

\* return sym_flux.FieldComponent(<the index R registered>, is_interior)
mbfeef_field_component(R, is_interior) ==
    [R EXCEPT !.out = FieldComponent(R.idx, is_interior)]

mbfeef_return(F, out) == [F EXCEPT !.out = out]

\* IdentityMapper on a node with children: the node with its children mapped
mbfeef_child_done(e, tag, children, i, mapped, R) ==
    IF R.err # "" THEN R
    ELSE mbfeef_children(e, tag, children, i + 1, Append(mapped, R.out), R)

mbfeef_children(e, tag, children, i, mapped, F) ==
    IF i > Len(children) THEN mbfeef_return(F, [e EXCEPT !.field = mapped])
    ELSE mbfeef_child_done(e, tag, children, i, mapped,
            mbfeef_rec(children[i], tag, F))

\* has_expensive_operators is what the detector returned or raised
mbfeef_cse(e, tag, F, has_expensive_operators) ==
    IF has_expensive_operators.err # ""
    THEN mbfeef_raise(F, has_expensive_operators.err)
    ELSE IF has_expensive_operators.val
    THEN mbfeef_field_component(register_boundary_expr(F, e), FALSE)
    ELSE mbfeef_children(e, tag, e.field, 1, <<>>, F)

mbfeef_map_common_subexpression(e, tag, F) ==
    mbfeef_cse(e, tag, F, ExpensiveBoundaryOperatorDetector(e.field[1]))

mbfeef_map_normal(e, tag, F) == mbfeef_raise(F, FluxNormal)

mbfeef_map_normal_component(e, tag, F) ==
    IF e.tag # tag THEN mbfeef_raise(F, TagsDisagree)
    ELSE mbfeef_return(F, Normal(0))

mbfeef_map_variable(e, tag, F) ==
    mbfeef_field_component(register_boundary_expr(F, e), FALSE)

\* map_operator_binding treating a restriction as boundary data, as it
\* treats the other operators
mbfeef_map_operator_binding_bdry(e, tag, F) ==
    IF e.op = "RestrictToBoundary"
    THEN IF e.tag # tag THEN mbfeef_raise(F, TagsDisagree)
         ELSE mbfeef_field_component(register_boundary_expr(F, e), FALSE)
    ELSE IF e.op = "FluxExchangeOperator"
    THEN IF tag # e.tag THEN mbfeef_raise(F, TagsDisagree)
         ELSE mbfeef_field_component(register_boundary_expr(F, e), FALSE)
    ELSE IF e.op = "QuadratureBoundaryGridUpsampler"
    THEN IF tag # e.tag THEN mbfeef_raise(F, TagsDisagree)
         ELSE mbfeef_field_component(register_boundary_expr(F, e), FALSE)
    ELSE IF e.op = "QuadratureGridUpsampler"
    THEN mbfeef_field_component(register_boundary_expr(F, e), FALSE)
    ELSE mbfeef_raise(F, BoundaryOperator)

mbfeef_map_operator_binding(e, tag, F) ==
    IF e.op = "RestrictToBoundary"
    THEN IF e.tag # tag THEN mbfeef_raise(F, TagsDisagree)
         ELSE mbfeef_field_component(register_volume_expr(F, e.field[1]), TRUE)
    ELSE IF e.op = "FluxExchangeOperator"
    THEN IF tag # e.tag THEN mbfeef_raise(F, TagsDisagree)
         ELSE mbfeef_field_component(register_boundary_expr(F, e), FALSE)
    ELSE IF e.op = "QuadratureBoundaryGridUpsampler"
    THEN IF tag # e.tag THEN mbfeef_raise(F, TagsDisagree)
         ELSE mbfeef_field_component(register_boundary_expr(F, e), FALSE)
    ELSE IF e.op = "QuadratureGridUpsampler"
    THEN mbfeef_field_component(register_boundary_expr(F, e), FALSE)
    ELSE mbfeef_raise(F, BoundaryOperator)

mbfeef_map_flux_exchange(e, tag, F) ==
    mbfeef_field_component(register_boundary_expr(F, e), FALSE)

\* the finder applied to e, for a boundary pair with the given tag
mbfeef_rec(e, tag, F) ==
    CASE e.kind = "common_subexpression" -> mbfeef_map_common_subexpression(e, tag, F)
      [] e.kind = "normal" -> mbfeef_map_normal(e, tag, F)
      [] e.kind = "normal_component" -> mbfeef_map_normal_component(e, tag, F)
      [] e.kind = "variable" -> mbfeef_map_variable(e, tag, F)
      [] e.kind = "operator_binding" -> mbfeef_map_operator_binding(e, tag, F)
      [] e.kind = "flux_exchange" -> mbfeef_map_flux_exchange(e, tag, F)
      [] e.kind \in {"sum", "product"} -> mbfeef_children(e, tag, e.field, 1, <<>>, F)
      [] e.kind = "constant" -> mbfeef_return(F, e)

-----------------------------------------------------------------------------
(* BCToFluxRewriter.map_operator_binding for a flux operator bound to a    *)
(* BoundaryPair(vol_field, bdry_field, bpair_tag)                          *)

RECURSIVE mbfeef_call(_, _, _, _, _)
RECURSIVE FluxSubstitutionMapper(_, _)
RECURSIVE substitute_children(_, _, _, _)
RECURSIVE BCToFluxRewriter_rec(_)

\* vol_bdry_intersection = bdry_dependencies & vol_dependencies
dependencies_of(fields) == UNION {DependencyMapper(fields[i]) : i \in 1..Len(fields)}
vol_bdry_intersection(bdry, vol) == dependencies_of(bdry) \cap dependencies_of(vol)

\* mbfeef(bdry_field): the finder applied to the components in order
mbfeef_component_done(fields, tag, i, mapped, R) ==
    IF R.err # "" THEN R
    ELSE mbfeef_call(fields, tag, i + 1, Append(mapped, R.out), R)

mbfeef_call(fields, tag, i, mapped, F) ==
    IF i > Len(fields) THEN mbfeef_return(F, mapped)
    ELSE mbfeef_component_done(fields, tag, i, mapped, mbfeef_rec(fields[i], tag, F))

is_obj_array(fields) == Len(fields) > 1

\* sub_bdry_into_flux for a boundary FieldComponent
sub_bdry_into_flux(e, new_field, bdry) ==
    IF e.name = 0 /\ ~is_obj_array(bdry) THEN new_field[1]
    ELSE new_field[e.name + 1]

\* the substitution applied to the children of a flux node
substitute_children(children, i, new_field, bdry) ==
    IF i > Len(children) THEN <<>>
    ELSE <<FluxSubstitutionMapper(children[i], <<new_field, bdry>>)>>
         \o substitute_children(children, i + 1, new_field, bdry)

\* FluxSubstitutionMapper(sub_bdry_into_flux)(flux): every boundary-side
\* FieldComponent of the flux is replaced
FluxSubstitutionMapper(e, fb) ==
    IF e.kind = "field_component" /\ e.op = "boundary"
    THEN sub_bdry_into_flux(e, fb[1], fb[2])
    ELSE IF e.field = <<>> THEN e
    ELSE [e EXCEPT !.field = substitute_children(e.field, 1, fb[1], fb[2])]

\* grudge.tools.is_zero: the expression is the number 0
is_zero(e) == e = Zero

\* self.rec(e): the rewriter is an IdentityMapper on everything but flux
\* operators bound to boundary pairs
BCToFluxRewriter_rec(e) ==
    IF e.field = <<>> THEN e
    ELSE [e EXCEPT !.field = [i \in 1..Len(e.field) |-> BCToFluxRewriter_rec(e.field[i])]]

\* type(expr.op)(new_flux, ...)(BoundaryPair(vol_expr_list, bdry_expr_list, tag))
rewritten_binding(new_flux, F, tag) ==
    [flux |-> new_flux,
     field |-> [i \in 1..Len(F.vol_expr_list) |-> BCToFluxRewriter_rec(F.vol_expr_list[i])],
     bfield |-> [i \in 1..Len(F.bdry_expr_list) |-> BCToFluxRewriter_rec(F.bdry_expr_list[i])],
     tag |-> tag]

-----------------------------------------------------------------------------
(* Specification of unify applied to arbitrary type values *)

NoResult ==
    [ab |-> no_type, ba |-> no_type, ab_c |-> no_type, a_bc |-> no_type,
     ab_a |-> no_type, ab_b |-> no_type]

UInit ==
    /\ ua \in TypeValues
    /\ ub \in TypeValues
    /\ uc \in TypeValues
    /\ ures = NoResult
    /\ upc = "args"
    /\ IParked
    /\ RParked
    /\ DParked

UnifyCalls ==
    /\ upc = "args"
    /\ ures' = [ab |-> unify(ua, ub),
                ba |-> unify(ub, ua),
                ab_c |-> unify_raising(unify(ua, ub), uc),
                a_bc |-> unify_raising(ua, unify(ub, uc)),
                ab_a |-> unify_raising(unify(ua, ub), ua),
                ab_b |-> unify_raising(unify(ua, ub), ub)]
    /\ upc' = "done"
    /\ UNCHANGED <<ua, ub, uc>>
    /\ UNCHANGED ivars
    /\ UNCHANGED rvars
    /\ UNCHANGED dvars

UNext == UnifyCalls

USpec == UInit /\ [][UNext]_vars

-----------------------------------------------------------------------------
(* Specification of a TypeDict that is written to: any sequence of          *)
(* __setitem__ calls, change_flag being cleared as the loop of __call__     *)
(* clears it                                                                *)

DictKeys == {x, Jacobian}

DInit ==
    /\ UParked
    /\ RParked
    /\ expr = <<>>
    /\ type_hints \in Hints
    /\ container = TypeDict_init(type_hints)
    /\ change_flag = FALSE
    /\ cse_last_results = EmptyDict
    /\ pc = "dict"
    /\ err = ""
    /\ ncalls = 0 /\ used = FALSE /\ rerun = FALSE /\ passes = 0
    /\ written = <<>>

\* the dictionary as the mapper methods hold it
TypeDictState == [MapperState(container, cse_last_results) EXCEPT !.flag = change_flag]

\* what typedict[e] = new_tp leaves
SetItemLeaves(M) ==
    /\ container' = M.td
    /\ change_flag' = M.flag
    /\ err' = M.err
    /\ pc' = IF M.err = "" THEN "dict" ELSE "raised"

\* typedict[e] = new_tp
SetItem ==
    /\ pc = "dict"
    /\ \E e \in DictKeys, new_tp \in TypeValues :
        /\ SetItemLeaves(TypeDict_setitem(TypeDictState, e, new_tp))
        /\ written' = [expr |-> e, new_tp |-> new_tp,
                       container |-> container, change_flag |-> change_flag]
    /\ UNCHANGED <<expr, type_hints, cse_last_results, ncalls, used, rerun, passes>>
    /\ UNCHANGED uvars
    /\ UNCHANGED rvars

\* typedict.change_flag = False, at the start of a round
ClearFlag ==
    /\ pc = "dict"
    /\ change_flag
    /\ change_flag' = FALSE
    /\ written' = <<>>
    /\ UNCHANGED <<expr, type_hints, container, cse_last_results, pc, err,
                   ncalls, used, rerun, passes>>
    /\ UNCHANGED uvars
    /\ UNCHANGED rvars

DNext ==
    \/ SetItem
    \/ ClearFlag

DSpec == DInit /\ [][DNext]_vars

-----------------------------------------------------------------------------
(* Specification of the rewriter applied to flux operators on boundary pairs *)

\* boundary tags of the pairs and of the nodes in them are 1..MaxPairTag
MaxPairTag == 2
PairTags == 1..MaxPairTag

y == Variable(2)
g == Variable(3)

BoundaryOperand == {x, y, g}

BoundaryLeaves ==
    {x, g, Constant, Zero, FluxExchange, Normal(0)}
    \cup {BoundaryNormalComponent(t, 0) : t \in PairTags}
    \cup {OperatorBinding(op, t, 0, o) :
            op \in {"RestrictToBoundary", "FluxExchangeOperator"},
            t \in PairTags, o \in BoundaryOperand}
    \cup {OperatorBinding("QuadratureBoundaryGridUpsampler", t, 1, o) :
            t \in PairTags, o \in BoundaryOperand}
    \cup {OperatorBinding(op, 0, q, o) :
            op \in {"QuadratureGridUpsampler", "MassOperator"},
            q \in {1}, o \in BoundaryOperand}

\* what the detector has a rule for
Detectable ==
    {l \in BoundaryLeaves :
        l.kind \in {"variable", "constant", "normal_component", "operator_binding"}}

\* a common subexpression around the exchange with rank tag t
ExchangeCSE(t) == CommonSubexpression(OperatorBinding("FluxExchangeOperator", t, 0, g))

BoundaryExprs ==
    BoundaryLeaves
    \cup {Sum(<<ExchangeCSE(t), m>>) :
            t \in PairTags,
            m \in {ExchangeCSE(u) : u \in PairTags}
                  \cup {OperatorBinding("FluxExchangeOperator", u, 0, g) : u \in PairTags}
                  \cup {g}}
    \cup {CommonSubexpression(l) : l \in Detectable}
    \cup {CommonSubexpression(Sum(<<g, l>>)) : l \in Detectable}
    \cup {Product(<<Constant, l>>) : l \in BoundaryLeaves}
    \cup {Sum(<<l, m>>) :
            l \in {x, g, OperatorBinding("RestrictToBoundary", 1, 0, x)},
            m \in BoundaryLeaves}

VolFields == {<<x>>, <<x, y>>, <<x, x>>}

\* -restrict(tag)(v) for every component v of the interior field
NegatedRestriction(tag, fields) ==
    [i \in 1..Len(fields) |->
        Product(<<Constant, OperatorBinding("RestrictToBoundary", tag, 0, fields[i])>>)]

BdryFields ==
    {<<b>> : b \in BoundaryExprs}
    \cup {<<b, c>> : b, c \in {g, OperatorBinding("RestrictToBoundary", 1, 0, x),
                               OperatorBinding("RestrictToBoundary", 1, 0, y)}}
    \cup {NegatedRestriction(t, v) : t \in PairTags, v \in VolFields}
    \cup {<<ExchangeCSE(t), ExchangeCSE(t)>> : t \in PairTags}

Fluxes ==
    {FieldComponent(0, FALSE),
     FieldComponent(0, TRUE),
     Sum(<<FieldComponent(0, TRUE), Product(<<Constant, FieldComponent(0, FALSE)>>)>>),
     Sum(<<FieldComponent(0, FALSE), FieldComponent(1, FALSE)>>),
     Product(<<Normal(0), FieldComponent(0, FALSE)>>)}

\* the boundary components a flux refers to
RECURSIVE BoundaryIndices(_)
BoundaryIndices(e) ==
    IF e.kind = "field_component" THEN IF e.op = "boundary" THEN {e.name} ELSE {}
    ELSE UNION {BoundaryIndices(e.field[i]) : i \in 1..Len(e.field)}

RInit ==
    /\ UParked
    /\ IParked
    /\ DParked
    /\ flux \in Fluxes
    /\ vol_field \in VolFields
    /\ bdry_field \in BdryFields
    /\ \A i \in BoundaryIndices(flux) : i < Len(bdry_field)
    /\ bpair_tag \in PairTags
    /\ mbfeef = <<>>
    /\ new_bdry_field = <<>>
    /\ result = <<>>
    /\ rpc = "dependencies"
    /\ rerr = ""

\* the dependencies of the two sides are compared, then the finder is made
CheckDependencies ==
    /\ rpc = "dependencies"
    /\ IF vol_bdry_intersection(bdry_field, vol_field) # {}
       THEN rpc' = "raised" /\ rerr' = AliasedVariables /\ mbfeef' = mbfeef
       ELSE rpc' = "find" /\ rerr' = "" /\ mbfeef' = mbfeef_init(vol_field)
    /\ UNCHANGED <<flux, vol_field, bdry_field, bpair_tag, new_bdry_field, result>>
    /\ UNCHANGED uvars
    /\ UNCHANGED ivars
    /\ UNCHANGED dvars

\* what the finder leaves
FinderLeaves(R) ==
    /\ mbfeef' = [R EXCEPT !.out = <<>>]
    /\ new_bdry_field' = IF R.err = "" THEN R.out ELSE <<>>
    /\ rpc' = IF R.err = "" THEN "substitute" ELSE "raised"
    /\ rerr' = R.err

\* Step 1: new_bdry_field = mbfeef(bdry_field)
FindFluxEvaluable ==
    /\ rpc = "find"
    /\ FinderLeaves(mbfeef_call(bdry_field, bpair_tag, 1, <<>>, mbfeef))
    /\ UNCHANGED <<flux, vol_field, bdry_field, bpair_tag, result>>
    /\ UNCHANGED uvars
    /\ UNCHANGED ivars
    /\ UNCHANGED dvars

\* what map_operator_binding returns for the substituted flux
SubstitutionLeaves(new_flux) ==
    IF is_zero(new_flux)
    THEN rpc' = "returned" /\ rerr' = "" /\ result' = Zero
    ELSE /\ rpc' = "returned" /\ rerr' = ""
         /\ result' = rewritten_binding(new_flux, mbfeef, bpair_tag)

\* Step II: the new boundary field is substituted into the flux
SubstituteIntoFlux ==
    /\ rpc = "substitute"
    /\ SubstitutionLeaves(FluxSubstitutionMapper(flux, <<new_bdry_field, bdry_field>>))
    /\ UNCHANGED <<flux, vol_field, bdry_field, bpair_tag, mbfeef, new_bdry_field>>
    /\ UNCHANGED uvars
    /\ UNCHANGED ivars
    /\ UNCHANGED dvars

RNext ==
    \/ CheckDependencies
    \/ FindFluxEvaluable
    \/ SubstituteIntoFlux

RSpec == RInit /\ [][RNext]_vars

-----------------------------------------------------------------------------
(* Properties of unify *)

\* C4: unify is commutative: unify(a, b) and unify(b, a) fail together or
\* return the same type, and no pair of types disagrees about its unifier.
C4_UnifyCommutative ==
    upc = "done" => /\ ures.ab = ures.ba
                    /\ ures.ab # RuntimeError

\* two different partial types were unified, in both orders
C4_Witness ==
    /\ upc = "done"
    /\ ua = KnownInteriorFaces
    /\ ub = KnownVolume
    /\ ures.ab = VolumeVector(NodalRepresentation)

\* C5: unify is associative, a failure being absorbing:
\* unify(unify(a, b), c) and unify(a, unify(b, c)) fail together or agree.
C5_UnifyAssociative ==
    upc = "done" =>
        \/ IsRaised(ures.ab_c) /\ IsRaised(ures.a_bc)
        \/ ~IsRaised(ures.ab_c) /\ ures.ab_c = ures.a_bc

\* C6: nothing is added to a final type: unify(a, b) for a final a fails or
\* returns a, fails for every other final b, and Scalar unifies with Scalar
\* and NoType only.
C6_FinalTypes ==
    (upc = "done" /\ IsFinalType(ua)) =>
        /\ ures.ab \in {ua, TypeError}
        /\ (IsFinalType(ub) /\ ub # ua) => ures.ab = TypeError
        /\ (ua = Scalar /\ ub \notin {Scalar, no_type}) => ures.ab = TypeError

\* a final type absorbed a partial type that agrees with it
C6_Witness ==
    /\ upc = "done"
    /\ ua = VolumeVector(NodalRepresentation)
    /\ ub = KnownInteriorFaces
    /\ ures.ab = ua

-----------------------------------------------------------------------------
(* Properties of the inference calls *)

\* C1: every inference call ends, by converging or by raising; the loop
\* runs forever on no template.  A round that leaves change_flag set and has
\* changed neither the dictionary nor the cache is followed by the same round
\* again, forever: a call that ends has no such round.
C1_EveryCallEnds ==
    [][(pc = "loop" /\ pc' = "test" /\ change_flag')
       => (container' # container \/ cse_last_results' # cse_last_results)]_vars

\* C2: every entry of a returned dictionary holds a final type, the entries
\* that came from the hints included, and a converged dictionary with an
\* entry that is not final is rejected with an error.
C2_ReturnedEntriesFinal ==
    /\ [](pc = "returned" => \A e \in DOMAIN container : IsFinalType(container[e]))
    /\ [][(pc = "test" /\ ~change_flag
            /\ \E e \in DOMAIN container : ~IsFinalType(container[e]))
          => (pc' = "raised" /\ err' = UnableToDeduce)]_vars

\* a dictionary was returned that holds an entry the traversal never visited
C2_Witness ==
    /\ pc = "returned"
    /\ expr = <<NodeCoordinateComponent(0)>>
    /\ x \in DOMAIN container
    /\ IsFinalType(container[x])

xPlusOne == Sum(<<x, Constant>>)

\* C3 as claimed: x + 1 without hints succeeds with x and the sum recorded
\* as VolumeVector(Nodal).
C3_SumIsVolumeVector ==
    (expr = <<xPlusOne>> /\ type_hints = EmptyDict /\ ncalls = 1
        /\ pc \in {"returned", "raised", "stuck"})
    => /\ pc = "returned"
       /\ TypeDict_getitem(container, x) = VolumeVector(NodalRepresentation)
       /\ TypeDict_getitem(container, xPlusOne) = VolumeVector(NodalRepresentation)

\* C3 amended: x + 1 without hints converges with x and the sum recorded as
\* KnownRepresentation(Nodal) and 1 as Scalar, and is rejected as not
\* deducible; with the hint x : VolumeVector(Nodal) it returns x and the sum
\* as VolumeVector(Nodal). The sum is Scalar in neither case.
C3_SumNeedsHint ==
    (expr = <<xPlusOne>> /\ ncalls = 1 /\ pc \in {"returned", "raised", "stuck"})
    => /\ TypeDict_getitem(container, Constant) = Scalar
       /\ TypeDict_getitem(container, xPlusOne) # Scalar
       /\ type_hints = EmptyDict =>
            /\ pc = "raised" /\ err = UnableToDeduce
            /\ container[x] = KnownRepresentation(NodalRepresentation)
            /\ container[xPlusOne] = KnownRepresentation(NodalRepresentation)
       /\ type_hints # EmptyDict =>
            /\ pc = "returned"
            /\ container[x] = VolumeVector(NodalRepresentation)
            /\ container[xPlusOne] = VolumeVector(NodalRepresentation)

\* the call on x + 1 without hints has ended
C3_Witness ==
    /\ expr = <<xPlusOne>> /\ type_hints = EmptyDict /\ ncalls = 1
    /\ pc = "raised"
    /\ xPlusOne \in DOMAIN container

\* the sequences with the elements of s in another order
Reorder(s) ==
    {[i \in 1..Len(s) |-> s[f[i]]] :
        f \in {p \in [1..Len(s) -> 1..Len(s)] :
                    \A i, j \in 1..Len(s) : i # j => p[i] # p[j]}}

\* the templates that differ from T in the order of the roots, of the
\* children of the root sum or product, or of the fields of the root flux binding
Reorderings(T) ==
    IF Len(T) > 1 THEN Reorder(T)
    ELSE IF T[1].kind \in {"sum", "product"} \/ T[1].op = "FluxOperator"
    THEN {<<[T[1] EXCEPT !.field = f, !.bfield = b]>> :
            f \in Reorder(T[1].field), b \in Reorder(T[1].bfield)}
    ELSE {T}

\* the node of the reordered template P that stands for node e of T
Reordered(T, P, e) == IF Len(T) = 1 /\ e = T[1] THEN P[1] ELSE e

\* the call that ended in this state and the call with outcome O on the
\* reordering P both failed, or both returned the same types
SameOutcome(P, O) ==
    IF pc = "returned"
    THEN /\ O.status = "returned"
         /\ Cardinality(DOMAIN O.td) = Cardinality(DOMAIN container)
         /\ \A e \in DOMAIN container :
                TypeDict_getitem(O.td, Reordered(expr, P, e)) = container[e]
    ELSE O.status # "returned"

\* C7: whether inference succeeds, and the type recorded for every
\* sub-expression, do not depend on the order of the children of an n-ary
\* node, of the fields of a flux binding, or of the roots.
C7_OrderIndependent ==
    (pc \in {"returned", "raised", "stuck"} /\ ncalls = 1) =>
        \A P \in Reorderings(expr) :
            SameOutcome(P, TypeInferrer_call(P, type_hints, EmptyDict))

\* C8: inferring the template again with the returned dictionary as hints
\* succeeds and changes no entry: no key is added, every key keeps its value,
\* nothing is raised, and the second round of the loop at the latest leaves
\* change_flag unset.
C8_Idempotent ==
    rerun => /\ container = type_hints
             /\ pc \notin {"raised", "stuck"}
             /\ (pc = "test" /\ passes >= 2) => ~change_flag

\* C9: a call shares no state with earlier calls: it returns the dictionary
\* that a call of a fresh inferrer object returns for the same template and
\* hints, or fails as that call does.
C9_NoSharedState ==
    (pc \in {"returned", "raised", "stuck"}) =>
        SameOutcome(expr, TypeInferrer_call(expr, type_hints, EmptyDict))

-----------------------------------------------------------------------------
(* Properties of the rewriter *)

\* the boundary field is the restriction, to the boundary of the pair, of
\* the variable x, which is among the volume fields
RestrictionOfVolumeVariable ==
    /\ bdry_field = <<OperatorBinding("RestrictToBoundary", bpair_tag, 0, x)>>
    /\ \E i \in 1..Len(vol_field) : vol_field[i] = x

\* C10 as claimed: rewriting a pair whose boundary field is the restriction
\* of the variable used as volume field fails with the aliased-variable
\* error and never returns a rewritten binding.
C10_RestrictionIsAliased ==
    (RestrictionOfVolumeVariable /\ rpc # "dependencies")
    => (rpc = "raised" /\ rerr = AliasedVariables)

\* C10 amended: the rewrite fails with the aliased-variable error when a
\* variable of the volume field occurs in the boundary field outside of any
\* operator binding.  When the boundary field is the restriction of the
\* volume variable, no such error is raised: the finder turns the boundary
\* field into an interior FieldComponent with the index of the variable in
\* the volume list and registers nothing, and a binding on the unchanged
\* volume fields with no boundary field is returned.
C10_BareVariableIsAliased ==
    /\ (rpc # "dependencies" /\ \E i \in 1..Len(vol_field) :
            vol_field[i].kind = "variable"
            /\ vol_field[i] \in dependencies_of(bdry_field))
       => (rpc = "raised" /\ rerr = AliasedVariables)
    /\ RestrictionOfVolumeVariable =>
        /\ rpc # "raised"
        /\ rpc \in {"substitute", "returned"} =>
            /\ new_bdry_field \in {<<FieldComponent(i - 1, TRUE)>> :
                                    i \in {j \in 1..Len(vol_field) : vol_field[j] = x}}
            /\ mbfeef.bdry_expr_list = <<>>
            /\ mbfeef.vol_expr_list = vol_field
        /\ rpc = "returned" =>
            /\ result # Zero
            /\ result.field = vol_field
            /\ result.bfield = <<>>
            /\ result.tag = bpair_tag

\* the pair with the restriction of its volume variable was rewritten
C10_Witness ==
    /\ RestrictionOfVolumeVariable
    /\ vol_field = <<x>>
    /\ flux = FieldComponent(0, FALSE)
    /\ rpc = "returned"
    /\ result.flux = FieldComponent(0, TRUE)

\* C11: when the boundary field is the negated restriction, to the boundary
\* of the pair, of the interior field, the rewrite succeeds: the finder
\* registers no boundary input, leaves the volume-input list equal to the
\* interior field list, and turns every restriction into an interior-side
\* FieldComponent whose index selects the restricted field in that list; the
\* returned binding has those volume fields and no boundary field.
C11_NegatedRestrictionRewritten ==
    (bdry_field = NegatedRestriction(bpair_tag, vol_field)) =>
        /\ rpc # "raised"
        /\ rpc \in {"substitute", "returned"} =>
            /\ mbfeef.bdry_expr_list = <<>>
            /\ mbfeef.vol_expr_list = vol_field
            /\ Len(new_bdry_field) = Len(vol_field)
            /\ \A i \in 1..Len(vol_field) :
                    \E k \in 1..Len(vol_field) :
                        /\ vol_field[k] = vol_field[i]
                        /\ new_bdry_field[i]
                             = Product(<<Constant, FieldComponent(k - 1, TRUE)>>)
        /\ rpc = "returned" =>
            /\ result # Zero
            /\ result.field = vol_field
            /\ result.bfield = <<>>

\* the pair of two interior fields and their negated restrictions was
\* rewritten, the second boundary component referring to interior field 1
C11_Witness ==
    /\ vol_field = <<x, y>>
    /\ bdry_field = NegatedRestriction(bpair_tag, vol_field)
    /\ flux = Sum(<<FieldComponent(0, FALSE), FieldComponent(1, FALSE)>>)
    /\ rpc = "returned"
    /\ result.flux = Sum(<<Product(<<Constant, FieldComponent(0, TRUE)>>),
                           Product(<<Constant, FieldComponent(1, TRUE)>>)>>)

\* a common subexpression whose body is an exchange operator binding
IsExchangeCSE(e) ==
    /\ e.kind = "common_subexpression"
    /\ e.field[1].kind = "operator_binding"
    /\ e.field[1].op = "FluxExchangeOperator"

\* the places of a field list: <<j, 0>> is component j, <<j, k>> child k of
\* component j when that is a sum or a product
Positions(fields) ==
    {<<j, 0>> : j \in 1..Len(fields)}
    \cup {<<j, k>> : j \in {i \in 1..Len(fields) : fields[i].kind \in {"sum", "product"}},
                     k \in 1..2}

At(fields, pos) ==
    IF pos[2] = 0 THEN fields[pos[1]]
    ELSE IF pos[2] <= Len(fields[pos[1]].field) THEN fields[pos[1]].field[pos[2]]
    ELSE Zero

\* C12: a common subexpression whose body is an exchange operator is entered
\* in the boundary-input list once: every occurrence of it in the boundary
\* field becomes the boundary-side FieldComponent with its one index in the
\* list, and the exchange operator in it is not entered in the list on its
\* account (only where the boundary field holds that operator outside the
\* common subexpression).
C12_ExchangeCSERegisteredOnce ==
    (rpc \in {"substitute", "returned"}) =>
        \A pos \in Positions(bdry_field) :
            IsExchangeCSE(At(bdry_field, pos)) =>
                /\ Cardinality({i \in 1..Len(mbfeef.bdry_expr_list) :
                        mbfeef.bdry_expr_list[i] = At(bdry_field, pos)}) = 1
                /\ \E i \in 1..Len(mbfeef.bdry_expr_list) :
                        /\ mbfeef.bdry_expr_list[i] = At(bdry_field, pos)
                        /\ At(new_bdry_field, pos) = FieldComponent(i - 1, FALSE)
                /\ (\E i \in 1..Len(mbfeef.bdry_expr_list) :
                        mbfeef.bdry_expr_list[i] = At(bdry_field, pos).field[1])
                   => \E other \in Positions(bdry_field) :
                        At(bdry_field, other) = At(bdry_field, pos).field[1]

\* the common subexpression occurs twice in one boundary expression and was
\* entered once
C12_Witness ==
    /\ bdry_field = <<Sum(<<ExchangeCSE(bpair_tag), ExchangeCSE(bpair_tag)>>)>>
    /\ rpc = "returned"
    /\ new_bdry_field = <<Sum(<<FieldComponent(0, FALSE), FieldComponent(0, FALSE)>>)>>
    /\ mbfeef.bdry_expr_list = <<ExchangeCSE(bpair_tag)>>
    /\ result.bfield = <<ExchangeCSE(bpair_tag)>>

\* C13: a returned binding is on a pair with the tag of the original pair,
\* and the original interior fields are the leading entries of its volume
\* field list, in their order: what the finder registered comes after them,
\* so an interior-side FieldComponent of the flux selects the field it
\* selected before.
C13_InteriorFieldsStayInFront ==
    (rpc = "returned" /\ result # Zero) =>
        /\ result.tag = bpair_tag
        /\ Len(result.field) >= Len(vol_field)
        /\ SubSeq(result.field, 1, Len(vol_field)) = vol_field
        /\ Len(result.field) = Len(mbfeef.vol_expr_list)

\* a binding was returned whose volume field list holds a registered
\* expression after the interior field, below a flux with an interior-side
\* FieldComponent
C13_Witness ==
    /\ rpc = "returned"
    /\ vol_field = <<x>>
    /\ bdry_field = <<OperatorBinding("RestrictToBoundary", bpair_tag, 0, y)>>
    /\ flux = Sum(<<FieldComponent(0, TRUE),
                    Product(<<Constant, FieldComponent(0, FALSE)>>)>>)
    /\ result.field = <<x, y>>
    /\ result.flux = Sum(<<FieldComponent(0, TRUE),
                           Product(<<Constant, FieldComponent(1, TRUE)>>)>>)

\* C19: registration keeps the index maps and the input lists of the finder
\* consistent, whatever the interior field list it starts from: the index
\* held for an expression selects that expression in the list, and one
\* expression has one entry.
C19_RegistrationConsistent ==
    (rpc \in {"substitute", "returned"}) =>
        /\ \A e \in DOMAIN mbfeef.vol_expr_to_idx :
                mbfeef.vol_expr_list[mbfeef.vol_expr_to_idx[e] + 1] = e
        /\ \A e \in DOMAIN mbfeef.bdry_expr_to_idx :
                mbfeef.bdry_expr_list[mbfeef.bdry_expr_to_idx[e] + 1] = e

\* a node that carries a boundary or rank tag the finder compares with the
\* tag of the pair
IsTagged(e) ==
    \/ e.kind = "normal_component"
    \/ /\ e.kind = "operator_binding"
       /\ e.op \in {"RestrictToBoundary", "FluxExchangeOperator",
                     "QuadratureBoundaryGridUpsampler"}

\* the tagged nodes in e, the ones in common subexpressions included
RECURSIVE TaggedNodes(_)
TaggedNodes(e) ==
    IF IsTagged(e) THEN {e}
    ELSE IF e.kind \in {"sum", "product", "common_subexpression"}
    THEN UNION {TaggedNodes(e.field[i]) : i \in 1..Len(e.field)}
    ELSE {}

\* C20: no tag mismatch is swallowed: when the boundary field holds, anywhere,
\* a normal component, a restriction, an exchange operator or a boundary
\* quadrature upsampler whose tag is not the tag of the pair, the rewrite
\* ends with the tag-mismatch error (or with the aliasing error raised
\* before the boundary field is looked at) and returns no binding.
C20_NoTagMismatchSwallowed ==
    (rpc \notin {"dependencies", "find"}
        /\ \E i \in 1..Len(bdry_field) :
              \E e \in TaggedNodes(bdry_field[i]) : e.tag # bpair_tag)
    => /\ rpc = "raised"
       /\ rerr \in {TagsDisagree, AliasedVariables, BoundaryOperator, FluxNormal}

-----------------------------------------------------------------------------
(* Properties of the type dictionary *)

\* what a type says: the domain, the representation, being a scalar
Information(tp) ==
    (IF tp.ty = "Scalar" THEN {<<"scalar", 0>>} ELSE {})
    \cup (IF tp.ty \in {"KnownVolume", "VolumeVector"} THEN {<<"volume", 0>>} ELSE {})
    \cup (IF tp.ty \in {"KnownInteriorFaces", "InteriorFacesVector"}
          THEN {<<"interior faces", 0>>} ELSE {})
    \cup (IF tp.boundary_tag # NoAttr THEN {<<"boundary", tp.boundary_tag>>} ELSE {})
    \cup (IF tp.repr_tag # NoAttr THEN {<<"representation", tp.repr_tag>>} ELSE {})

\* the write of new_tp under key e to the dictionary old_td, with change_flag
\* old_flag, left container and change_flag as a monotone write does
MonotoneWrite(old_td, old_flag, e, new_tp) ==
    /\ \A k \in DOMAIN old_td : k \in DOMAIN container /\ (k # e => container[k] = old_td[k])
    /\ DOMAIN container \subseteq DOMAIN old_td \cup {e}
    /\ (Information(new_tp) \subseteq Information(TypeDict_getitem(old_td, e))
            /\ (new_tp = no_type \/ e \in DOMAIN old_td))
       => (container = old_td /\ change_flag = old_flag)
    /\ container # old_td =>
            container[e] = unify(TypeDict_getitem(old_td, e), new_tp)
    /\ change_flag = (old_flag \/ container # old_td)
    /\ (e \in DOMAIN old_td /\ IsFinalType(old_td[e])) => container[e] = old_td[e]

\* C14: writes to the type dictionary are monotone.  A write of NoType, or
\* of a type that says nothing the stored type does not say, leaves the
\* entry and change_flag as they were (such a write may raise); a write
\* changes the entry only to unify(old, new), and no other entry;
\* change_flag is set by a write exactly when the entry changed or the key
\* was new; and an entry holding a final type keeps it.
C14_WritesAreMonotone ==
    (written # <<>>) =>
        MonotoneWrite(written.container, written.change_flag,
                      written.expr, written.new_tp)

\* after earlier writes, KnownVolume was written to an entry that holds
\* VolumeVector(Nodal): entry and change_flag stayed
C14_Witness ==
    /\ written # <<>>
    /\ written.expr = x
    /\ written.new_tp = KnownVolume
    /\ Jacobian \in DOMAIN written.container
    /\ x \in DOMAIN written.container
    /\ written.container[x] = VolumeVector(NodalRepresentation)
    /\ type_hints = EmptyDict
    /\ ~written.change_flag
    /\ ~change_flag
    /\ container = written.container

-----------------------------------------------------------------------------
(* Properties of the mapper rules *)

\* the argument expressions of a flux operator binding, of both sides
FluxArguments(e) ==
    {e.field[i] : i \in 1..Len(e.field)} \cup {e.bfield[i] : i \in 1..Len(e.bfield)}

\* C15: when inference succeeds on a flux operator binding, all argument
\* expressions of the flux, interior-side and boundary-side, have ended with
\* the same representation tag, whatever argument lies between two of them.
C15_FluxArgumentsAgree ==
    (pc = "returned" /\ Len(expr) = 1 /\ expr[1].op = "FluxOperator") =>
        \A a, b \in FluxArguments(expr[1]) :
            TypeDict_getitem(container, a).repr_tag
                = TypeDict_getitem(container, b).repr_tag

\* C16: for a boundarize binding the representation flows both ways: a
\* representation known of the result of the binding is the representation
\* of the operand, which is a volume vector, and a representation known of
\* the operand is the representation of the result, which is a boundary
\* vector with the tag of the operator.
C16_BoundarizeBothWays ==
    (Len(expr) = 1 /\ expr[1].op = "BoundarizeOperator"
        /\ pc \in {"test", "returned"}) =>
        /\ TypeDict_getitem(container, expr[1]).repr_tag # NoAttr =>
                TypeDict_getitem(container, expr[1].field[1])
                    = VolumeVector(TypeDict_getitem(container, expr[1]).repr_tag)
        /\ TypeDict_getitem(container, expr[1].field[1]).repr_tag # NoAttr =>
                TypeDict_getitem(container, expr[1])
                    = BoundaryVector(expr[1].tag,
                        TypeDict_getitem(container, expr[1].field[1]).repr_tag)

DiffMassStiffness == QuadratureSpecialized \cup StiffnessT \cup Mass \cup OtherDiffMass

\* the template is a differentiation, mass or stiffness operator binding and
\* a round has ended without a type conflict
AfterDiffMassStiffness ==
    /\ Len(expr) = 1 /\ expr[1].op \in DiffMassStiffness
    /\ pc \in {"test", "returned"}

\* C17 as claimed: a differentiation, mass or stiffness operator binding
\* that is not specialized for quadrature pins its operand to
\* VolumeVector(Nodal), a specialized one to VolumeVector(Quadrature(tag of
\* the operator)), and the binding is VolumeVector(Nodal).
C17_OperandPinned ==
    AfterDiffMassStiffness =>
        /\ TypeDict_getitem(container, expr[1]) = VolumeVector(NodalRepresentation)
        /\ TypeDict_getitem(container, expr[1].field[1])
            = IF expr[1].op \in QuadratureSpecialized
              THEN VolumeVector(QuadratureRepresentation(expr[1].quadrature_tag))
              ELSE VolumeVector(NodalRepresentation)

\* C17 amended: the mass and stiffness_T operators that are not specialized
\* for quadrature constrain their operand to be a volume vector of any
\* representation (KnownVolume), so an operand on a quadrature grid is
\* accepted; the other operators that are not specialized pin it to
\* VolumeVector(Nodal), the specialized ones to VolumeVector(Quadrature(tag
\* of the operator)); the binding is VolumeVector(Nodal) in every case.
C17_OperandIsVolume ==
    AfterDiffMassStiffness =>
        /\ TypeDict_getitem(container, expr[1]) = VolumeVector(NodalRepresentation)
        /\ expr[1].op \in QuadratureSpecialized =>
                TypeDict_getitem(container, expr[1].field[1])
                    = VolumeVector(QuadratureRepresentation(expr[1].quadrature_tag))
        /\ expr[1].op \in OtherDiffMass =>
                TypeDict_getitem(container, expr[1].field[1])
                    = VolumeVector(NodalRepresentation)
        /\ expr[1].op \in StiffnessT \cup Mass =>
                /\ TypeDict_getitem(container, expr[1].field[1]).ty
                        \in {"KnownVolume", "VolumeVector"}
                /\ expr[1].field[1].kind = "node_coordinate_component" =>
                        TypeDict_getitem(container, expr[1].field[1])
                            = IF expr[1].field[1].quadrature_tag # 0
                              THEN VolumeVector(QuadratureRepresentation(
                                        expr[1].field[1].quadrature_tag))
                              ELSE VolumeVector(NodalRepresentation)

\* the mass operator applied to node coordinates on a quadrature grid was
\* accepted
C17_Witness ==
    /\ pc = "returned"
    /\ expr = <<OperatorBinding("MassOperator", 0, 0, NodeCoordinateComponent(1))>>
    /\ container[NodeCoordinateComponent(1)]
        = VolumeVector(QuadratureRepresentation(1))
    /\ container[expr[1]] = VolumeVector(NodalRepresentation)

\* the template is one normal-component or node-coordinate leaf, inferred
\* without hints
LeafAlone ==
    /\ Len(expr) = 1
    /\ type_hints = EmptyDict
    /\ expr[1].kind \in {"normal_component", "node_coordinate_component"}

\* C18: a normal-component leaf and a node-coordinate leaf are typed with
\* Quadrature(their quadrature tag) when the tag is set and with the nodal
\* representation when it is not, the normal component as a boundary vector
\* with its boundary tag, the node coordinate as a volume vector: such a
\* leaf alone reaches a final type and the call returns.
C18_LeavesDefaultToNodal ==
    (LeafAlone /\ pc \in {"test", "returned", "raised", "stuck"}) =>
        /\ pc \in {"test", "returned"}
        /\ expr[1].kind = "node_coordinate_component" =>
                TypeDict_getitem(container, expr[1])
                    = VolumeVector(IF expr[1].quadrature_tag # 0
                                   THEN QuadratureRepresentation(expr[1].quadrature_tag)
                                   ELSE NodalRepresentation)
        /\ expr[1].kind = "normal_component" =>
                TypeDict_getitem(container, expr[1])
                    = BoundaryVector(expr[1].tag,
                                     IF expr[1].quadrature_tag # 0
                                     THEN QuadratureRepresentation(expr[1].quadrature_tag)
                                     ELSE NodalRepresentation)

-----------------------------------------------------------------------------
(* The unifier against its inputs *)

\* C21: a unifier is consistent with both of its inputs: when unify(a, b)
\* returns u, unify(u, a) and unify(u, b) return u as well, so that writing
\* the same constraint to a dictionary entry a second time neither raises
\* nor changes the entry.
C21_UnifierAbsorbsInputs ==
    (upc = "done" /\ ~IsRaised(ures.ab)) =>
        /\ ures.ab_a = ures.ab
        /\ ures.ab_b = ures.ab

====
